---- MODULE Spec2Model ----
(***************************************************************************)
(* Model of the jacquard image processor: the encoder img2jacquard         *)
(* (src/img2jacquard.py) and the palette detection                         *)
(* ImageProcessorGUI.detect_colors_from_image (src/gui.py).                *)
(*                                                                         *)
(* A colour is an RGB triple <<r, g, b>>.  An image (numpy array of shape  *)
(* (h, w, 3)) is a record [h, w, px] with px a function from the cells     *)
(* <<row, col>>, 0-based, to colours.  A raised Python exception is part   *)
(* of a call's outcome: [exc, args, returned, value].                      *)
(***************************************************************************)
EXTENDS Integers, Sequences, FiniteSets

VARIABLES pc, front_img, back_img, color_order, outcome, image_array, detected,
          front_image_array, back_image_array, result_array, process_btn, save_btn,
          clicks, back_src

\* the window's state: the three arrays and the two buttons of ImageProcessorGUI,
\* the number of handled user events (clicks) and where back_image_array came from
\* (back_src: "none", "file", "noise" of the current front image, "stale" noise
\* of an earlier front image, "resized" by ensure_images_same_size)
guiVars ==
    <<front_image_array, back_image_array, result_array, process_btn, save_btn,
      clicks, back_src>>

vars ==
    <<pc, front_img, back_img, color_order, outcome, image_array, detected,
      front_image_array, back_image_array, result_array, process_btn, save_btn,
      clicks, back_src>>

(***************************************************************************)
(* Bounds of the model.                                                    *)
(***************************************************************************)
\* the encoder's input images have at most this many pixels (h * w)
MaxPixels == 2

\* the images given to the palette detection have at most this many pixels
MaxScan == 6

\* the reference images of the noise generation have at most this many pixels
MaxNoise == 4

\* the image files of the window have at most this many columns
MaxFileWidth == 3

\* the window handles at most this many user events
MaxClicks == 4

(***************************************************************************)
(* Colours.                                                                *)
(***************************************************************************)
BLUE == <<0, 0, 255>>

RED == <<255, 0, 0>>

GREEN == <<0, 255, 0>>

YELLOW == <<255, 255, 0>>

default_colors == << <<1, 194, 83>>, <<12, 88, 17>>, <<255, 142, 246>> >>

\* a colour outside the default palette
OtherColor == <<0, 0, 0>>

\* the colours the encoder's input pixels are drawn from
EncColors == {default_colors[1], default_colors[2], default_colors[3], OtherColor}

\* the colours the detection's input pixels are drawn from: the three defaults,
\* one colour below them all and one that shares its first channel with a default
ScanColors ==
    {default_colors[1], default_colors[2], default_colors[3],
     <<0, 255, 255>>, <<12, 5, 200>>}

\* the colours the noise generation's reference pixels are drawn from
NoiseColors == {default_colors[1], default_colors[2], <<0, 255, 255>>, <<12, 5, 200>>}

(***************************************************************************)
(* Images.                                                                 *)
(***************************************************************************)
Cells(h, w) == (0 .. h - 1) \X (0 .. w - 1)

Shapes(n) == {s \in (0 .. n) \X (0 .. n) : s[1] * s[2] <= n}

\* the image of shape s with the pixels f
Image(s, f) == [h |-> s[1], w |-> s[2], px |-> f]

Shape(img) == <<img.h, img.w>>

NoImage == [h |-> 0, w |-> 0, px |-> <<>>]

\* Python's None where an array is expected
None == [h |-> -1, w |-> -1, px |-> <<>>]

\* ImageProcessorGUI.__init__ and the buttons as create_control_panel leaves them
GuiConstructed ==
    /\ front_image_array = None
    /\ back_image_array = None
    /\ result_array = None
    /\ process_btn = FALSE
    /\ save_btn = FALSE
    /\ clicks = 0
    /\ back_src = "none"

\* the palettes the encoder is called with: three distinct colours in several
\* orders, a repeated colour, and lengths 2 and 4
Palettes ==
    {default_colors,
     <<default_colors[3], default_colors[1], default_colors[2]>>,
     <<default_colors[2], default_colors[1], default_colors[3]>>,
     <<default_colors[1], default_colors[1], default_colors[2]>>,
     <<default_colors[1], default_colors[2], default_colors[1]>>,
     <<default_colors[1], default_colors[2]>>,
     <<default_colors[1], default_colors[2], default_colors[3], OtherColor>>}

(***************************************************************************)
(* Outcomes of a call.                                                     *)
(***************************************************************************)
Return(v) == [exc |-> "none", args |-> <<>>, returned |-> TRUE, value |-> v]

Raise(e, a) == [exc |-> e, args |-> a, returned |-> FALSE, value |-> NoImage]

NotCalled == [exc |-> "none", args |-> <<>>, returned |-> FALSE, value |-> NoImage]

(***************************************************************************)
(* img2jacquard(front_img, back_img, color_order)                          *)
(***************************************************************************)
\* tuple.index: the 0-based position of the first entry equal to x, -1 for
\* the ValueError the lookup raises when there is none
Index(t, x) ==
    IF \E k \in 1 .. Len(t) : t[k] = x
    THEN (CHOOSE k \in 1 .. Len(t) : t[k] = x /\ \A m \in 1 .. k - 1 : t[m] # x) - 1
    ELSE -1

\* res[row, j, :] = color; an index outside the array is numpy's IndexError
Put(st, row, j, color) ==
    IF st.exc # "none" THEN st
    ELSE IF <<row, j>> \in DOMAIN st.res
    THEN [st EXCEPT !.res = [st.res EXCEPT ![<<row, j>>] = color]]
    ELSE [st EXCEPT !.exc = "IndexError"]

\* faulty variant: the output keeps the source height
ResShapeSameHeight(front) == <<front.h, front.w>>

\* the shape of np.zeros((front_img.shape[0]*3, front_img.shape[1], 3))
ResShape(front) == <<front.h * 3, front.w>>

\* res[i:i+3, j, :] = BLUE (a slice is clipped to the array, it never raises)
FillDefault(st, i, j) ==
    [st EXCEPT !.res = [cell \in DOMAIN st.res |->
        IF cell[2] = j /\ cell[1] >= i /\ cell[1] < i + 3 THEN BLUE ELSE st.res[cell]]]

\* faulty variant: the offset is added to the source row i//3
WriteBothSourceRow(st, i, j, k) == Put(st, (i \div 3) + k, j, YELLOW)

\* res[i + index(front pixel), j, :] = YELLOW
WriteBoth(st, i, j, k) == Put(st, i + k, j, YELLOW)

\* faulty variant: the front colour is marked with GREEN
WriteFrontSwapped(st, i, j, k) == Put(st, i + k, j, GREEN)

\* res[i + index(front pixel), j, :] = RED
WriteFront(st, i, j, k) == Put(st, i + k, j, RED)

\* res[i + index(back pixel), j, :] = GREEN
WriteBack(st, i, j, k) == Put(st, i + k, j, GREEN)

ValueError(st) == [st EXCEPT !.exc = "ValueError"]

\* faulty variant: the back write looks up the front pixel
BackIndexOfFront(front, back, pal, r, j) == Index(pal, front.px[<<r, j>>])

\* color_order.index(tuple(back_img[i//3, j, :]))
BackIndex(front, back, pal, r, j) == Index(pal, back.px[<<r, j>>])

\* the body of the inner loop for the output row i (a multiple of 3) and column j
PixelStep(st, i, j, front, back, pal) ==
    LET r == i \div 3
        filled == FillDefault(st, i, j)
        kf == Index(pal, front.px[<<r, j>>])
        kb == BackIndex(front, back, pal, r, j)
    IN  IF front.px[<<r, j>>] = back.px[<<r, j>>]
        THEN IF kf = -1 THEN ValueError(filled) ELSE WriteBoth(filled, i, j, kf)
        ELSE IF kf = -1 THEN ValueError(filled)
             ELSE LET withFront == WriteFront(filled, i, j, kf)
                  IN  IF kb = -1 THEN ValueError(withFront)
                      ELSE WriteBack(withFront, i, j, kb)

RECURSIVE ColLoop(_, _, _, _, _, _, _)
\* for j in range(res.shape[1]); an exception ends the loop
ColLoop(st, i, j, w, front, back, pal) ==
    IF j >= w \/ st.exc # "none" THEN st
    ELSE ColLoop(PixelStep(st, i, j, front, back, pal), i, j + 1, w, front, back, pal)

RECURSIVE RowLoop(_, _, _, _, _, _, _)
\* for i in range(res.shape[0]): if i % 3 == 0: ...
RowLoop(st, i, h, w, front, back, pal) ==
    IF i >= h \/ st.exc # "none" THEN st
    ELSE IF i % 3 = 0
    THEN RowLoop(ColLoop(st, i, 0, w, front, back, pal), i + 1, h, w, front, back, pal)
    ELSE RowLoop(st, i + 1, h, w, front, back, pal)

\* res.astype(np.uint8) on the channel values the loop wrote
astype_uint8(res) == [cell \in DOMAIN res |-> [ch \in 1 .. 3 |-> res[cell][ch] % 256]]

\* the message of the ValueError that tuple.index raises
IndexMessage == "tuple.index(x): x not in tuple"

ExcArgs(e) == IF e = "ValueError" THEN <<IndexMessage>> ELSE <<>>

img2jacquard(front, back, pal) ==
    IF Len(pal) # 3 THEN Raise("AssertionError", <<>>)
    ELSE IF Shape(front) # Shape(back) THEN Raise("AssertionError", <<>>)
    ELSE LET sh == ResShape(front)
             zeros == [cell \in Cells(sh[1], sh[2]) |-> <<0, 0, 0>>]
             final == RowLoop([res |-> zeros, exc |-> "none"], 0, sh[1], sh[2],
                              front, back, pal)
         IN  IF final.exc # "none" THEN Raise(final.exc, ExcArgs(final.exc))
             ELSE Return([h |-> sh[1], w |-> sh[2], px |-> astype_uint8(final.res)])

(***************************************************************************)
(* The encoder's specification: one call on inputs drawn from the bounded  *)
(* sets.                                                                   *)
(***************************************************************************)
Init ==
    /\ GuiConstructed
    /\ pc = "call"
    /\ \E s \in Shapes(MaxPixels) : \E f \in [Cells(s[1], s[2]) -> EncColors] :
          front_img = Image(s, f)
    /\ \E s \in Shapes(MaxPixels) : \E f \in [Cells(s[1], s[2]) -> EncColors] :
          back_img = Image(s, f)
    /\ color_order \in Palettes
    /\ outcome = NotCalled
    /\ image_array = NoImage
    /\ detected = <<>>

Img2Jacquard ==
    /\ pc = "call"
    /\ outcome' = img2jacquard(front_img, back_img, color_order)
    /\ pc' = "done"
    /\ UNCHANGED <<front_img, back_img, color_order, image_array, detected>>
    /\ UNCHANGED guiVars

Next == Img2Jacquard

Spec == Init /\ [][Next]_vars

(***************************************************************************)
(* ImageProcessorGUI.detect_colors_from_image(image_array)                 *)
(***************************************************************************)
\* img_array.reshape(-1, img_array.shape[2]): the pixels in row-major order
reshape(img) ==
    [k \in 1 .. img.h * img.w |-> img.px[<<(k - 1) \div img.w, (k - 1) % img.w>>]]

\* the order of np.unique(..., axis=0) on uint8 rows: channel by channel
LexLess(a, b) ==
    \/ a[1] < b[1]
    \/ a[1] = b[1] /\ a[2] < b[2]
    \/ a[1] = b[1] /\ a[2] = b[2] /\ a[3] < b[3]

RECURSIVE Ascending(_)
Ascending(S) ==
    IF S = {} THEN <<>>
    ELSE LET least == CHOOSE x \in S : \A y \in S \ {x} : LexLess(x, y)
         IN  <<least>> \o Ascending(S \ {least})

\* the distinct rows in scan order (used by the faulty variant of np_unique)
RECURSIVE InScanOrder(_, _, _)
InScanOrder(rows, k, acc) ==
    IF k > Len(rows) THEN acc
    ELSE InScanOrder(rows, k + 1,
            IF \E m \in 1 .. Len(acc) : acc[m] = rows[k] THEN acc
            ELSE Append(acc, rows[k]))

\* faulty variant: the distinct rows in the order of their first occurrence
np_unique_unsorted(rows) == InScanOrder(rows, 1, <<>>)

\* np.unique(rows, axis=0): the distinct rows in ascending order
np_unique(rows) == Ascending({rows[k] : k \in 1 .. Len(rows)})

RECURSIVE CountLoop(_, _, _)
\* for pixel in rows: color_counts[pixel] = color_counts.get(pixel, 0) + 1;
\* the dict as the sequence of its items <<colour, count>> in insertion order
CountLoop(rows, k, counts) ==
    IF k > Len(rows) THEN counts
    ELSE CountLoop(rows, k + 1,
            IF \E m \in 1 .. Len(counts) : counts[m][1] = rows[k]
            THEN [m \in 1 .. Len(counts) |->
                    IF counts[m][1] = rows[k]
                    THEN <<counts[m][1], counts[m][2] + 1>> ELSE counts[m]]
            ELSE Append(counts, <<rows[k], 1>>))

\* faulty variant: the item goes before the items of equal count
InsertAfterGreater(sorted, item) ==
    LET at == Cardinality({m \in 1 .. Len(sorted) : sorted[m][2] > item[2]})
    IN  SubSeq(sorted, 1, at) \o <<item>> \o SubSeq(sorted, at + 1, Len(sorted))

\* one step of the stable sort by descending count: the item goes behind every
\* item whose count is at least its own
InsertStable(sorted, item) ==
    LET at == Cardinality({m \in 1 .. Len(sorted) : sorted[m][2] >= item[2]})
    IN  SubSeq(sorted, 1, at) \o <<item>> \o SubSeq(sorted, at + 1, Len(sorted))

RECURSIVE SortLoop(_, _, _)
SortLoop(items, k, sorted) ==
    IF k > Len(items) THEN sorted
    ELSE SortLoop(items, k + 1, InsertStable(sorted, items[k]))

\* sorted(color_counts.items(), key=lambda x: x[1], reverse=True)
sorted_by_count(items) == SortLoop(items, 1, <<>>)

\* faulty variant: no test whether the default is already present
AppendDefaultUnchecked(colors, default_color) ==
    IF Len(colors) < 3 THEN Append(colors, default_color) ELSE colors

\* if len(detected_colors) < 3 and default_color not in detected_colors: append
AppendDefault(colors, default_color) ==
    IF Len(colors) < 3 /\ ~(\E m \in 1 .. Len(colors) : colors[m] = default_color)
    THEN Append(colors, default_color)
    ELSE colors

RECURSIVE PadLoop(_, _)
\* for default_color in default_colors: ...
PadLoop(colors, k) ==
    IF k > Len(default_colors) THEN colors
    ELSE PadLoop(AppendDefault(colors, default_colors[k]), k + 1)

Head3(t) == SubSeq(t, 1, IF Len(t) < 3 THEN Len(t) ELSE 3)

detect_colors_from_image(img) ==
    LET rows == reshape(img)
        unique_colors == np_unique(rows)
    IN  IF Len(unique_colors) = 3 THEN unique_colors
        ELSE IF Len(unique_colors) > 3
        THEN LET sorted_colors == sorted_by_count(CountLoop(rows, 1, <<>>))
             IN  [m \in 1 .. Len(Head3(sorted_colors)) |-> Head3(sorted_colors)[m][1]]
        ELSE Head3(PadLoop(unique_colors, 1))

(***************************************************************************)
(* The detection's specification: one call on an image drawn from the      *)
(* bounded set.                                                            *)
(***************************************************************************)
InitDetect ==
    /\ GuiConstructed
    /\ pc = "detect"
    /\ \E s \in Shapes(MaxScan) : \E f \in [Cells(s[1], s[2]) -> ScanColors] :
          image_array = Image(s, f)
    /\ detected = <<>>
    /\ front_img = NoImage
    /\ back_img = NoImage
    /\ color_order = <<>>
    /\ outcome = NotCalled

DetectColors ==
    /\ pc = "detect"
    /\ detected' = detect_colors_from_image(image_array)
    /\ pc' = "done"
    /\ UNCHANGED <<image_array, front_img, back_img, color_order, outcome>>
    /\ UNCHANGED guiVars

NextDetect == DetectColors

SpecDetect == InitDetect /\ [][NextDetect]_vars

(***************************************************************************)
(* generate_noise_like(img)                                                *)
(***************************************************************************)
\* the number of values np.random.choice(3, ...) draws from
NoiseChoices == 3

\* the values one draw of np.random.choice(3, ...) can take
RandomIndices == 0 .. NoiseChoices - 1

\* color_set[idx] of one drawn index: <<-1, -1, -1>> stands for numpy's
\* IndexError when the index is outside color_set
Lookup(color_set, idx) ==
    IF idx + 1 <= Len(color_set) THEN color_set[idx + 1] ELSE <<-1, -1, -1>>

\* generate_noise_like with the array random_indices that np.random.choice drew,
\* one index per cell of img
generate_noise_like(img, random_indices) ==
    LET color_set == np_unique(reshape(img))
        noise_img == [cell \in DOMAIN img.px |-> Lookup(color_set, random_indices[cell])]
    IN  IF \E cell \in DOMAIN img.px : noise_img[cell] = <<-1, -1, -1>>
        THEN Raise("IndexError", <<>>)
        ELSE Return([h |-> img.h, w |-> img.w, px |-> noise_img])

(***************************************************************************)
(* The noise generation's specification: one call on a reference image     *)
(* drawn from the bounded set, with every outcome of the random draws.     *)
(***************************************************************************)
InitNoise ==
    /\ GuiConstructed
    /\ pc = "noise"
    /\ \E s \in Shapes(MaxNoise) : \E f \in [Cells(s[1], s[2]) -> NoiseColors] :
          image_array = Image(s, f)
    /\ outcome = NotCalled
    /\ detected = <<>>
    /\ front_img = NoImage
    /\ back_img = NoImage
    /\ color_order = <<>>

GenerateNoise ==
    /\ pc = "noise"
    /\ \E random_indices \in [DOMAIN image_array.px -> RandomIndices] :
          outcome' = generate_noise_like(image_array, random_indices)
    /\ pc' = "done"
    /\ UNCHANGED <<image_array, detected, front_img, back_img, color_order>>
    /\ UNCHANGED guiVars

NextNoise == GenerateNoise

SpecNoise == InitNoise /\ [][NextNoise]_vars

(***************************************************************************)
(* ImageProcessorGUI: the handlers of the window                           *)
(***************************************************************************)
\* the colours of the image files, by column
RampColors ==
    <<default_colors[2], default_colors[1], default_colors[3], <<12, 5, 200>>>>

\* the image file of 1 row and w columns whose columns run through RampColors:
\* its number of distinct colours is w, up to 4
Ramp(w) ==
    [h |-> 1, w |-> w,
     px |-> [cell \in Cells(1, w) |-> RampColors[(cell[2] % Len(RampColors)) + 1]]]

\* an image file of 2 rows and 1 column with 2 distinct colours
TallFile ==
    [h |-> 2, w |-> 1,
     px |-> [cell \in Cells(2, 1) |->
                IF cell[1] = 0 THEN default_colors[3] ELSE default_colors[1]]]

\* the files the user can select, by their decoded RGB content; None is a file
\* that cv2.imread cannot decode
Files == {Ramp(w) : w \in 1 .. MaxFileWidth} \cup {TallFile, None}

\* cv2.cvtColor with COLOR_BGR2RGB or COLOR_RGB2BGR: the channels reversed
cvtColor(img) ==
    [img EXCEPT !.px = [cell \in DOMAIN img.px |->
        <<img.px[cell][3], img.px[cell][2], img.px[cell][1]>>]]

\* cv2.imread: the file's image in BGR order, None for a file it cannot decode
imread(file) == IF file = None THEN None ELSE cvtColor(file)

Colors(img) == {img.px[cell] : cell \in DOMAIN img.px}

\* the colour that stands for the blends cv2.resize interpolates
BlendColor == OtherColor

\* cv2.resize(img, (width, height)): an image of the shape (height, width); the
\* interpolated pixel values are left open between the source's colours and a
\* blend of them, and a source of one colour gives that colour everywhere
resize(img, height, width) ==
    LET values == IF Cardinality(Colors(img)) = 1 THEN Colors(img)
                  ELSE Colors(img) \cup {BlendColor}
    IN  {[h |-> height, w |-> width, px |-> f] : f \in [Cells(height, width) -> values]}

\* faulty variant: the back array is left as it is
ensure_images_unchanged(front, back) == {back}

\* ensure_images_same_size: the values back_image_array can have after it
ensure_images_same_size(front, back) ==
    IF front # None /\ back # None /\ Shape(front) # Shape(back)
    THEN resize(back, front.h, front.w)
    ELSE {back}

\* faulty variant: the noise is stored as generated, in RGB order
NoiseStoredAsIs(noise_array_rgb) == noise_array_rgb

\* self.back_image_array = cv2.cvtColor(noise_array_rgb, cv2.COLOR_RGB2BGR)
NoiseToBack(noise_array_rgb) == cvtColor(noise_array_rgb)

\* generate_back_image_noise: the values back_image_array can have after it;
\* an exception of generate_noise_like is caught and leaves it as it was
generate_back_image_noise(front, back) ==
    IF front = None THEN {back}
    ELSE LET front_image_rgb == cvtColor(front)
         IN  {LET o == generate_noise_like(front_image_rgb, random_indices)
              IN  IF o.returned THEN NoiseToBack(o.value) ELSE back
              : random_indices \in [DOMAIN front_image_rgb.px -> RandomIndices]}

\* faulty variant: the Save button keeps its state when processing fails
SaveBtnKept(enabled) == enabled

\* self.save_btn.setEnabled(False) in the except branch of process_image
SaveBtnAfterError(enabled) == FALSE

\* one more user event is handled
Click ==
    /\ clicks < MaxClicks
    /\ clicks' = clicks + 1

\* the encoder is not running: the variables of its call are idle
NoCall ==
    /\ front_img' = NoImage
    /\ back_img' = NoImage
    /\ color_order' = <<>>
    /\ outcome' = NotCalled

\* select_front_image with a chosen file, load_front_image
LoadFront ==
    /\ Click
    /\ \E file \in Files :
           LET img == imread(file)
           IN  IF img = None
               THEN /\ front_image_array' = None
                    /\ process_btn' = FALSE
                    /\ back_src' = IF back_src = "noise" THEN "stale" ELSE back_src
                    /\ UNCHANGED <<back_image_array, detected>>
               ELSE /\ front_image_array' = img
                    /\ detected' = detect_colors_from_image(cvtColor(img))
                    /\ IF back_image_array = None
                       THEN /\ back_image_array' \in generate_back_image_noise(img, None)
                            /\ back_src' = IF back_image_array' = None THEN "none" ELSE "noise"
                       ELSE /\ back_image_array' = back_image_array
                            /\ back_src' = IF back_src = "noise" THEN "stale" ELSE back_src
                    /\ process_btn' = TRUE
    /\ NoCall
    /\ UNCHANGED <<pc, image_array, result_array, save_btn>>

\* select_back_image with a chosen file, load_back_image
LoadBack ==
    /\ Click
    /\ \E file \in Files :
          /\ back_image_array' = imread(file)
          /\ back_src' = IF imread(file) = None THEN "none" ELSE "file"
    /\ NoCall
    /\ UNCHANGED <<pc, image_array, detected, front_image_array, result_array,
                   process_btn, save_btn>>

\* process_image, on a click of the enabled Process button
Process ==
    /\ Click
    /\ process_btn
    /\ IF front_image_array = None \/ back_image_array = None
       THEN /\ NoCall
            /\ UNCHANGED <<back_image_array, back_src, result_array, save_btn>>
       ELSE \E sized \in ensure_images_same_size(front_image_array, back_image_array) :
              LET front_img_rgb == cvtColor(front_image_array)
                  back_img_rgb == cvtColor(sized)
                  detected_colors == detect_colors_from_image(front_img_rgb)
                  o == img2jacquard(front_img_rgb, back_img_rgb, detected_colors)
              IN  /\ back_image_array' = sized
                  /\ back_src' = IF Shape(front_image_array) # Shape(back_image_array)
                                 THEN "resized" ELSE back_src
                  /\ front_img' = front_img_rgb
                  /\ back_img' = back_img_rgb
                  /\ color_order' = detected_colors
                  /\ outcome' = o
                  /\ IF o.returned
                     THEN /\ result_array' = o.value
                          /\ save_btn' = TRUE
                     ELSE /\ result_array' = result_array
                          /\ save_btn' = SaveBtnAfterError(save_btn)
    /\ UNCHANGED <<pc, image_array, detected, front_image_array, process_btn>>

\* save_processed_image, on a click of the enabled Save button: the result is
\* written to the chosen file, or the dialog is cancelled
Save ==
    /\ Click
    /\ save_btn
    /\ NoCall
    /\ UNCHANGED <<pc, image_array, detected, front_image_array, back_image_array,
                   result_array, process_btn, save_btn, back_src>>

InitGui ==
    /\ GuiConstructed
    /\ pc = "gui"
    /\ image_array = NoImage
    /\ detected = <<>>
    /\ front_img = NoImage
    /\ back_img = NoImage
    /\ color_order = <<>>
    /\ outcome = NotCalled

NextGui == LoadFront \/ LoadBack \/ Process \/ Save

SpecGui == InitGui /\ [][NextGui]_vars

(***************************************************************************)
(* Properties of the encoder.                                              *)
(***************************************************************************)
Entries(t) == {t[k] : k \in 1 .. Len(t)}

Distinct(t) == \A a, b \in 1 .. Len(t) : a # b => t[a] # t[b]

SameShape == Shape(front_img) = Shape(back_img)

InPalette(img) == \A cell \in DOMAIN img.px : img.px[cell] \in Entries(color_order)

\* the encoder's preconditions: 3 palette entries, equal shapes, every pixel a
\* palette colour
Conforming ==
    /\ Len(color_order) = 3
    /\ SameShape
    /\ InPalette(front_img)
    /\ InPalette(back_img)

\* conforming with a palette as the data model defines it: 3 distinct colours
ConformingDistinct == Conforming /\ Distinct(color_order)

\* C1: for every conforming input the call returns an array of exactly three
\* times the front image's height and of the front image's width.
C1_OutputShape ==
    (pc = "done" /\ Conforming) =>
        /\ outcome.returned
        /\ outcome.value.h = 3 * front_img.h
        /\ outcome.value.w = front_img.w
        /\ DOMAIN outcome.value.px = Cells(3 * front_img.h, front_img.w)

C1_Witness ==
    /\ pc = "done"
    /\ Conforming
    /\ front_img.h = 2
    /\ front_img.w = 1
    /\ outcome.returned
    /\ outcome.value.h = 6

\* C2: for every conforming input and every pixel (r, c) whose front and back
\* colour are both palette[k], the output has YELLOW at row 3r+k of column c and
\* BLUE at the two other rows of the group 3r .. 3r+2.
C2_BothLaw ==
    (pc = "done" /\ ConformingDistinct) =>
        /\ outcome.returned
        /\ \A cell \in DOMAIN front_img.px : \A k \in 0 .. 2 :
              (front_img.px[cell] = color_order[k + 1]
                  /\ back_img.px[cell] = color_order[k + 1]) =>
                 \A m \in 0 .. 2 :
                    outcome.value.px[<<3 * cell[1] + m, cell[2]>>]
                        = IF m = k THEN YELLOW ELSE BLUE

C2_Witness ==
    /\ pc = "done"
    /\ ConformingDistinct
    /\ outcome.returned
    /\ \E cell \in DOMAIN front_img.px :
          /\ cell[1] = 1
          /\ front_img.px[cell] = color_order[2]
          /\ back_img.px[cell] = color_order[2]
          /\ outcome.value.px[<<4, cell[2]>>] = YELLOW

\* C3: for every conforming input and every pixel (r, c) with front colour
\* palette[k1] and back colour palette[k2], k1 # k2, the output has RED at row
\* 3r+k1, GREEN at row 3r+k2 and BLUE at the remaining row of the group (so the
\* RED cell survives the GREEN write).
C3_FrontBackLaw ==
    (pc = "done" /\ ConformingDistinct) =>
        /\ outcome.returned
        /\ \A cell \in DOMAIN front_img.px : \A k1, k2 \in 0 .. 2 :
              (k1 # k2
                  /\ front_img.px[cell] = color_order[k1 + 1]
                  /\ back_img.px[cell] = color_order[k2 + 1]) =>
                 \A m \in 0 .. 2 :
                    outcome.value.px[<<3 * cell[1] + m, cell[2]>>]
                        = IF m = k1 THEN RED ELSE IF m = k2 THEN GREEN ELSE BLUE

C3_Witness ==
    /\ pc = "done"
    /\ ConformingDistinct
    /\ outcome.returned
    /\ \E cell \in DOMAIN front_img.px :
          /\ front_img.px[cell] = color_order[3]
          /\ back_img.px[cell] = color_order[1]
          /\ outcome.value.px[<<3 * cell[1] + 2, cell[2]>>] = RED
          /\ outcome.value.px[<<3 * cell[1], cell[2]>>] = GREEN

\* a colour no image holds: what the decoding yields for a group it cannot read
Unreadable == <<-1, -1, -1>>

\* the offset in 0 .. 2 at which the row group of source pixel `cell` shows
\* `color`, 3 when it shows it nowhere
OffsetOf(woven, cell, color) ==
    IF \E m \in 0 .. 2 : woven.px[<<3 * cell[1] + m, cell[2]>>] = color
    THEN CHOOSE m \in 0 .. 2 : woven.px[<<3 * cell[1] + m, cell[2]>>] = color
    ELSE 3

PaletteAt(pal, m) == IF m < 3 THEN pal[m + 1] ELSE Unreadable

\* the decoding of a woven grid: YELLOW at offset k reads as (palette[k],
\* palette[k]); otherwise RED at k1 and GREEN at k2 read as (palette[k1],
\* palette[k2])
Decode(woven, pal, h, w) ==
    LET both(cell) == OffsetOf(woven, cell, YELLOW)
        f(cell) == IF both(cell) < 3 THEN PaletteAt(pal, both(cell))
                   ELSE PaletteAt(pal, OffsetOf(woven, cell, RED))
        b(cell) == IF both(cell) < 3 THEN PaletteAt(pal, both(cell))
                   ELSE PaletteAt(pal, OffsetOf(woven, cell, GREEN))
    IN  <<[h |-> h, w |-> w, px |-> [cell \in Cells(h, w) |-> f(cell)]],
          [h |-> h, w |-> w, px |-> [cell \in Cells(h, w) |-> b(cell)]]>>

\* C4: with a palette of 3 distinct colours the encoding is injective: the
\* front and the back image are recovered exactly from the woven grid and the
\* palette.
C4_Injective ==
    (pc = "done" /\ ConformingDistinct) =>
        /\ outcome.returned
        /\ Decode(outcome.value, color_order, front_img.h, front_img.w)
              = <<front_img, back_img>>

C4_Witness ==
    /\ pc = "done"
    /\ ConformingDistinct
    /\ outcome.returned
    /\ Cardinality(DOMAIN front_img.px) = 2
    /\ \E c1, c2 \in DOMAIN front_img.px :
          /\ front_img.px[c1] # back_img.px[c1]
          /\ front_img.px[c2] = back_img.px[c2]
    /\ Decode(outcome.value, color_order, front_img.h, front_img.w)
          = <<front_img, back_img>>

\* the pixels of the two images that are no palette colour
Offending(img) == {cell \in DOMAIN img.px : img.px[cell] \notin Entries(color_order)}

\* C5: when a pixel of the front or of the back image equals none of the 3
\* palette colours, the call fails with a ColorNotInPalette error that names the
\* offending pixel's coordinate and colour, and no grid is returned.
C5_ColorNotInPalette ==
    (pc = "done" /\ Len(color_order) = 3 /\ SameShape
        /\ Offending(front_img) \cup Offending(back_img) # {}) =>
        /\ ~outcome.returned
        /\ outcome.exc = "ColorNotInPalette"
        /\ Len(outcome.args) = 2
        /\ \/ /\ outcome.args[1] \in Offending(front_img)
              /\ outcome.args[2] = front_img.px[outcome.args[1]]
           \/ /\ outcome.args[1] \in Offending(back_img)
              /\ outcome.args[2] = back_img.px[outcome.args[1]]

\* C6: a call with images of different shapes fails with a ShapeMismatch error, a
\* call with a palette whose length is not 3 fails with an InvalidPalette error,
\* the two error kinds differ, and neither call returns a grid.
C6_DistinctErrorKinds ==
    (pc = "done" /\ Len(color_order) = 3 /\ ~SameShape) =>
        /\ ~outcome.returned
        /\ outcome.exc # "none"
        /\ \A p \in Palettes : Len(p) # 3 =>
              LET o == img2jacquard(front_img, back_img, p)
              IN  /\ ~o.returned
                  /\ o.exc # "none"
                  /\ o.exc # outcome.exc

\* C7: a call with a palette of length 3 in which two entries are the same colour
\* fails with an InvalidPalette error and returns no grid.
C7_DuplicatePaletteRejected ==
    (pc = "done" /\ Len(color_order) = 3 /\ ~Distinct(color_order)) =>
        /\ ~outcome.returned
        /\ outcome.exc # "none"

(***************************************************************************)
(* Properties of the palette detection.                                    *)
(***************************************************************************)
\* the k-th pixel, from 1, of the scanned image in row-major order
ScanAt(k) == image_array.px[<<(k - 1) \div image_array.w, (k - 1) % image_array.w>>]

ImageColors == {image_array.px[cell] : cell \in DOMAIN image_array.px}

PixelCount(c) == Cardinality({cell \in DOMAIN image_array.px : image_array.px[cell] = c})

\* the position of the first pixel of colour c in row-major order
FirstSeen(c) ==
    CHOOSE k \in 1 .. image_array.h * image_array.w :
        ScanAt(k) = c /\ \A m \in 1 .. k - 1 : ScanAt(m) # c

\* a ranks above b: more pixels, or as many and seen first
RanksAbove(a, b) ==
    \/ PixelCount(a) > PixelCount(b)
    \/ PixelCount(a) = PixelCount(b) /\ FirstSeen(a) < FirstSeen(b)

\* C8: for every image, also one with no pixel and with 1, 2, 3 or more than 3
\* distinct colours, the detection returns exactly 3 pairwise distinct colours.
C8_ThreeDistinct ==
    pc = "done" => Len(detected) = 3 /\ Distinct(detected)

C8_Witness ==
    /\ pc = "done"
    /\ image_array.h = 0
    /\ image_array.w = 2
    /\ Len(detected) = 3
    /\ Distinct(detected)

\* C9: for every image with more than 3 distinct colours the detection returns
\* the 3 colours with the most pixels, most first, and among colours with as
\* many pixels the one seen first in row-major order ranks above the other, in
\* the result's order and in the choice of the colour cut off at position 3.
C9_TopThreeByCount ==
    (pc = "done" /\ Cardinality(ImageColors) > 3) =>
        /\ Len(detected) = 3
        /\ \A i \in 1 .. 3 : detected[i] \in ImageColors
        /\ \A i, j \in 1 .. 3 : i < j => RanksAbove(detected[i], detected[j])
        /\ \A c \in ImageColors \ Entries(detected) : RanksAbove(detected[3], c)

C9_Witness ==
    /\ pc = "done"
    /\ Cardinality(ImageColors) > 3
    /\ Len(detected) = 3
    /\ PixelCount(detected[1]) = 2
    /\ PixelCount(detected[2]) = 1
    /\ FirstSeen(detected[1]) > FirstSeen(detected[2])
    /\ \E c \in ImageColors \ Entries(detected) :
          PixelCount(c) = PixelCount(detected[3]) /\ FirstSeen(detected[3]) < FirstSeen(c)

\* the defaults that are no colour of the image, in their fixed order
AbsentDefaults ==
    LET absent(d) == d \notin ImageColors
    IN  SelectSeq(default_colors, absent)

\* C10 as stated: for every image with fewer than 3 distinct colours the
\* detection returns the image's distinct colours in the order of their first
\* occurrence in row-major scan, followed by the defaults in their fixed order,
\* skipping the defaults already present, until 3 colours are collected.
C10_FirstOccurrenceOrder ==
    (pc = "done" /\ Cardinality(ImageColors) < 3) =>
        LET n == Cardinality(ImageColors)
        IN  /\ Len(detected) = 3
            /\ \A i \in 1 .. n : detected[i] \in ImageColors
            /\ \A i, j \in 1 .. n : i < j => FirstSeen(detected[i]) < FirstSeen(detected[j])
            /\ SubSeq(detected, n + 1, 3) = SubSeq(AbsentDefaults, 1, 3 - n)

\* C10 amended: for every image with fewer than 3 distinct colours the
\* detection returns the image's distinct colours in ascending order of
\* (R, G, B), compared channel by channel, followed by the defaults in their
\* fixed order, skipping the defaults already present, until 3 colours are
\* collected.
C10_AscendingOrder ==
    (pc = "done" /\ Cardinality(ImageColors) < 3) =>
        LET n == Cardinality(ImageColors)
        IN  /\ Len(detected) = 3
            /\ \A i \in 1 .. n : detected[i] \in ImageColors
            /\ \A i, j \in 1 .. n : i < j => LexLess(detected[i], detected[j])
            /\ SubSeq(detected, n + 1, 3) = SubSeq(AbsentDefaults, 1, 3 - n)

C10_Witness ==
    /\ pc = "done"
    /\ Cardinality(ImageColors) = 2
    /\ default_colors[1] \in ImageColors
    /\ Len(detected) = 3
    /\ FirstSeen(detected[2]) < FirstSeen(detected[1])
    /\ detected[3] = default_colors[2]

(***************************************************************************)
(* Properties of the noise generation.                                     *)
(***************************************************************************)
\* C11: for every reference image, whatever the number of its distinct colours,
\* and for every outcome of the random draws, the call returns without error an
\* image of the reference's height and width whose every pixel is a colour of
\* the reference; for a reference of exactly 1 distinct colour the output is
\* the constant image of that colour.
C11_NoiseWithinColors ==
    pc = "done" =>
        /\ outcome.returned
        /\ Shape(outcome.value) = Shape(image_array)
        /\ DOMAIN outcome.value.px = DOMAIN image_array.px
        /\ \A cell \in DOMAIN outcome.value.px : outcome.value.px[cell] \in ImageColors
        /\ Cardinality(ImageColors) = 1 => outcome.value.px = image_array.px

\* C12: for every reference image, every image of the reference's shape over
\* the reference's distinct colours is a possible output, also when the
\* reference has more than 3 distinct colours.
C12_EveryColorPossible ==
    pc = "done" =>
        LET outcomes == {generate_noise_like(image_array, random_indices) :
                            random_indices \in [DOMAIN image_array.px -> RandomIndices]}
        IN  {o.value.px : o \in {x \in outcomes : x.returned}}
                = [DOMAIN image_array.px -> ImageColors]

(***************************************************************************)
(* Properties of the window.                                               *)
(***************************************************************************)
\* process_image has just called the encoder: the variables of the call hold
\* its arguments and its outcome
CallMade == front_img # NoImage

\* C13: after any sequence of front loads, back loads and Process clicks the
\* encoder is only called with a front and a back image of equal shape (a
\* back array of another shape is resized first), so its shape assertion never
\* fails on this path.
C13_SameShapeCall ==
    /\ Shape(front_img) = Shape(back_img)
    /\ outcome.exc # "AssertionError"
    /\ CallMade => Shape(back_image_array) = Shape(front_image_array)

C13_Witness ==
    /\ CallMade
    /\ back_src = "resized"
    /\ Shape(front_img) = Shape(back_img)
    /\ front_img.w = 3

\* C14: a successful front load with no back array fabricates one by noise, so
\* in every state where the Process button is enabled a back array is present
\* and a click on Process runs the encoder; also for front images of any number
\* of distinct colours and after a failed back load.
C14_BackPresentWhenEnabled ==
    process_btn => back_image_array # None

\* C15: for a front image of exactly 3 distinct colours whose back array is the
\* noise generated from it, Process meets every precondition of the encoder:
\* the detected palette has 3 entries, the noise has the front's shape, every
\* front and noise pixel is a palette colour; the result is stored and the Save
\* button enabled.
C15_NoisePipeline ==
    (CallMade /\ back_src = "noise" /\ Cardinality(Colors(front_image_array)) = 3) =>
        /\ Len(color_order) = 3
        /\ SameShape
        /\ InPalette(front_img)
        /\ InPalette(back_img)
        /\ outcome.returned
        /\ result_array = outcome.value
        /\ save_btn

C15_Witness ==
    /\ CallMade
    /\ back_src = "noise"
    /\ Cardinality(Colors(front_image_array)) = 3
    /\ Cardinality(Colors(back_image_array)) = 2
    /\ outcome.returned
    /\ save_btn

\* C16: in every reachable state of the window the Save button is enabled only
\* if a result is stored, and a failing Process disables the Save button and
\* leaves the stored result as it was.
C16_SaveNeedsResult ==
    /\ [](save_btn => result_array # None)
    /\ [][(front_img' # NoImage /\ ~outcome'.returned) =>
            (~save_btn' /\ result_array' = result_array)]_vars

C16_Witness ==
    /\ CallMade
    /\ ~outcome.returned
    /\ result_array # None
    /\ ~save_btn

====
